---- MODULE Spec2Model ----
(***************************************************************************)
(* Sidecar supervisor of the caw desktop shell                             *)
(* (apps/desktop/src-tauri/src/lib.rs).                                    *)
(*                                                                         *)
(* State: the SidecarState slot (a Mutex<Option<CommandChild>>), the       *)
(* mutex itself, the worker processes the supervisor has spawned, and the  *)
(* position and locals of every running handler: two concurrent            *)
(* restart_server invocations, a stop_server caller, the ExitRequested     *)
(* handler and the background readiness poll launched by setup.            *)
(* server_status and resolve_db_path share no state with them and are      *)
(* stepped in specifications of their own (SpecStatus, SpecPath).          *)
(*                                                                         *)
(* History variables (takes, kills, rnew, rsaw, psaw, sprev, rcalls,       *)
(* scalls) record what the handlers did; no handler reads them.            *)
(*                                                                         *)
(* A worker that ends on its own is seen by the supervisor only when it    *)
(* calls kill on the handle, so it is modelled as an outcome of kill.      *)
(*                                                                         *)
(* std::sync::Mutex poisoning is not modelled: no handler panics while it  *)
(* holds the guard, so lock() never returns Err.                           *)
(***************************************************************************)
EXTENDS Integers, FiniteSets, Sequences, TLC

\* ------------------------------------------------------------- bounds
\* stop_server invocations made in one run
MaxStopCalls == 2

\* server_status invocations in one run
MaxStatusCalls == 2

\* longest git output and HOME value drawn for resolve_db_path
MaxStrLen == 2

\* ------------------------------------------------------------- constants
\* for _ in 0..30  (restart_server)
RestartAttempts == 30
\* for _ in 0..60  (setup's background poll)
StartAttempts == 60
\* sleep(500 ms) between the probes of restart_server's poll
RestartPollDelayMs == 500
\* sleep(500 ms) between the probes of setup's background poll
StartPollDelayMs == 500

\* the restart_server invocations of one run, named in the order in which
\* they arrive; the second may arrive while the first is still in flight
RestartOrder == <<"r1", "r2">>
RestartCallers == {RestartOrder[i] : i \in 1..Len(RestartOrder)}
StopThread == "stop"
ExitThread == "exit"

\* Option::None for a worker handle; handles are 1, 2, ...
None == 0

\* HOME is not in the environment (or is not valid Unicode): env::var is Err
Unset == <<"<unset>">>

\* resolve_db_path has not returned yet
Unresolved == <<>>
MaxW == 1 + Len(RestartOrder)
Workers == 1..MaxW

VARIABLES
    phase,      \* "init" | "running" (setup done, SidecarState managed) | "aborted" (setup panicked)
    registry,   \* content of SidecarState's Option: None or a worker handle
    lock,       \* holder of SidecarState's mutex, or "free"
    nspawned,   \* number of worker processes spawned so far
    live,       \* worker processes spawned and not known to have ended
    kills,      \* kills[w]: times kill() was invoked on handle w
    takes,      \* takes[w]: times take() returned handle w
    rpc,        \* restart_server: position of each invocation
    rchild,     \* restart_server: `child` bound by `if let Some(child) = guard.take()`
    rnew,       \* restart_server: `child` returned by spawn()
    rattempts,  \* restart_server: probes issued by the poll loop
    rsaw,       \* restart_server: the last probe got a success status
    rresult,    \* restart_server: the returned value
    rcalls,     \* restart_server invocations so far
    spc,        \* stop_server: position
    schild,     \* stop_server: `child` bound by the take
    sresult,    \* stop_server: the returned value
    scalls,     \* stop_server invocations so far
    sprev,      \* stop_server: the value the call before this one returned
    epc,        \* ExitRequested handler: position
    echild,     \* ExitRequested handler: `child` bound by the take
    ppc,        \* setup's background poll: position
    pattempts,  \* setup's background poll: probes issued
    psaw,       \* setup's background poll: the last probe got a success status
    stcalls,    \* server_status invocations so far
    stoutcome,  \* server_status: what its probe got, "none" when it made none
    stresult,   \* server_status: the returned value
    gitStatus,  \* resolve_db_path: how `git rev-parse --show-toplevel` ended
    gitOut,     \* resolve_db_path: git's stdout, a sequence of characters
    home,       \* resolve_db_path: the value of HOME, or Unset
    dbPath      \* resolve_db_path: the returned path, or Unresolved

procVars == <<nspawned, live, kills, takes>>
rVars    == <<rpc, rchild, rnew, rattempts, rsaw, rresult, rcalls>>
sVars    == <<spc, schild, sresult, scalls, sprev>>
eVars    == <<epc, echild>>
pVars    == <<ppc, pattempts, psaw>>
stVars   == <<stcalls, stoutcome, stresult>>
dbVars   == <<gitStatus, gitOut, home, dbPath>>
vars     == <<phase, registry, lock, procVars, rVars, sVars, eVars, pVars, stVars, dbVars>>

\* ------------------------------------------------------------- environment

\* sidecar("caw") and spawn(): the lookup fails, the spawn fails, or a process starts
SpawnOutcomes == {"ok", "no_sidecar", "spawn_failed"}

\* CommandChild::kill terminates the process, or is refused by the OS (the
\* process keeps running), or finds the process already ended on its own and
\* then returns Ok or Err depending on the platform.
KillOutcomes == {"killed", "refused", "gone_ok", "gone_err"}

KillIsOk(o) == o \in {"killed", "gone_ok"}

\* one GET /health: a success status, another status, a transport error, or
\* no answer at all
ProbeOutcomes == {"success", "bad_status", "transport_error", "no_response"}

\* ------------------------------------------------------------- helpers

\* Option::take leaves None in the slot
TakeSlot_Peek(slot) == slot
TakeSlot(slot) == None

\* the mutex is handed to one thread at a time
LockFree_NoMutex == TRUE
LockFree == lock = "free"

\* Ok(resp) with resp.status().is_success(); with the 2 s client timeout an
\* unanswered request is an Err
ProbeReady_AnyOutcome(o) == o # "transport_error"
ProbeReady(o) == o = "success"

\* the `for _ in 0..30` loop ends after its 30th iteration
RestartPollExhausted_OffByOne(n) == n > RestartAttempts
RestartPollExhausted(n) == n >= RestartAttempts

\* the `for _ in 0..60` loop ends after its 60th iteration
StartPollExhausted_OffByOne(n) == n > StartAttempts
StartPollExhausted(n) == n >= StartAttempts

\* `if let Some(child) = guard.take()` in stop_server: kill only a taken handle
StopKills_Never(child) == FALSE
StopKills(child) == child # None

\* `if let Some(child) = guard.take()` in restart_server: kill only a taken handle
RestartKills_Never(child) == FALSE
RestartKills(child) == child # None

\* `*guard = Some(child)`: the slot is overwritten, whatever it held
PutSlot_Keep(slot, new) == slot
PutSlot(slot, new) == new

\* `?` on a failed sidecar()/spawn(): the function returns, the slot stays as
\* the take left it
SpawnFailureSlot_Rollback(slot) == IF slot = None THEN 1 ELSE slot
SpawnFailureSlot(slot) == slot

\* the MutexGuard of thread t goes out of scope: the mutex is free again
Release_Leak(t) == t
Release(t) == "free"

\* the background task's loop tests nothing but its own counter: whatever the
\* Registry slot holds, the next probe is made
PollContinues_WhileRegistered(slot) == slot # None
PollContinues(slot) == TRUE

\* child.kill(): one more kill on w, with the outcome the OS gives
Kill(w, o) ==
    /\ kills' = [kills EXCEPT ![w] = @ + 1]
    /\ live' = IF o = "refused" THEN live ELSE live \ {w}

\* guard.take(): the slot is emptied and the handle counted as handed out
Take(h) ==
    /\ registry' = TakeSlot(registry)
    /\ takes' = IF h # None THEN [takes EXCEPT ![h] = @ + 1] ELSE takes

\* ------------------------------------------------------------- Init

\* the state before setup runs
InitCore ==
    /\ phase = "init"
    /\ registry = None
    /\ lock = "free"
    /\ nspawned = 0
    /\ live = {}
    /\ kills = [w \in Workers |-> 0]
    /\ takes = [w \in Workers |-> 0]
    /\ rpc = [c \in RestartCallers |-> "idle"]
    /\ rchild = [c \in RestartCallers |-> None]
    /\ rnew = [c \in RestartCallers |-> None]
    /\ rattempts = [c \in RestartCallers |-> 0]
    /\ rsaw = [c \in RestartCallers |-> FALSE]
    /\ rresult = [c \in RestartCallers |-> "none"]
    /\ rcalls = 0
    /\ spc = "idle"
    /\ schild = None
    /\ sresult = "none"
    /\ scalls = 0
    /\ sprev = "none"
    /\ epc = "idle"
    /\ echild = None
    /\ ppc = "none"
    /\ pattempts = 0
    /\ psaw = FALSE
    /\ stcalls = 0
    /\ stoutcome = "none"
    /\ stresult = "none"

Init ==
    /\ InitCore
    /\ gitStatus = "spawn_error"
    /\ gitOut = <<>>
    /\ home = Unset
    /\ dbPath = Unresolved

\* ------------------------------------------------------------- setup

\* run(): the setup closure spawns the sidecar, manages SidecarState holding
\* Some(child) and launches the background readiness poll. unwrap()/expect()
\* abort the application when the sidecar cannot be started.
Setup ==
    /\ phase = "init"
    /\ \E o \in SpawnOutcomes :
        IF o = "ok"
        THEN /\ phase' = "running"
             /\ nspawned' = nspawned + 1
             /\ live' = live \cup {nspawned + 1}
             /\ registry' = nspawned + 1
             /\ ppc' = "polling"
        ELSE /\ phase' = "aborted"
             /\ UNCHANGED <<nspawned, live, registry, ppc>>
    /\ UNCHANGED <<lock, kills, takes, rVars, sVars, eVars, pattempts, psaw, stVars, dbVars>>

\* ------------------------------------------------------------- restart_server

\* app.state::<SidecarState>() and state.0.lock(): the invocation starts and
\* blocks until the mutex is free
R_Lock1(c) ==
    /\ phase = "running"
    /\ epc # "done"
    /\ rpc[c] = "idle"
    /\ rcalls < Len(RestartOrder)
    /\ c = RestartOrder[rcalls + 1]
    /\ LockFree
    /\ lock' = c
    /\ rpc' = [rpc EXCEPT ![c] = "locked1"]
    /\ rcalls' = rcalls + 1
    /\ UNCHANGED <<phase, registry, procVars, rchild, rnew, rattempts, rsaw, rresult, sVars, eVars, pVars, stVars, dbVars>>

\* guard.take()
R_Take(c) ==
    /\ rpc[c] = "locked1"
    /\ Take(registry)
    /\ rchild' = [rchild EXCEPT ![c] = registry]
    /\ rpc' = [rpc EXCEPT ![c] = "taken"]
    /\ UNCHANGED <<phase, lock, nspawned, live, kills, rnew, rattempts, rsaw, rresult, rcalls, sVars, eVars, pVars, stVars, dbVars>>

\* if let Some(child) = ... { let _ = child.kill(); }  - the result is discarded
R_Kill(c) ==
    /\ rpc[c] = "taken"
    /\ IF RestartKills(rchild[c])
       THEN \E o \in KillOutcomes : Kill(rchild[c], o)
       ELSE UNCHANGED <<kills, live>>
    /\ rchild' = [rchild EXCEPT ![c] = None]
    /\ rpc' = [rpc EXCEPT ![c] = "unlock1"]
    /\ UNCHANGED <<phase, registry, lock, nspawned, takes, rnew, rattempts, rsaw, rresult, rcalls, sVars, eVars, pVars, stVars, dbVars>>

\* the guard is dropped at the end of the block
R_Unlock1(c) ==
    /\ rpc[c] = "unlock1"
    /\ lock' = Release(c)
    /\ rpc' = [rpc EXCEPT ![c] = "sleep"]
    /\ UNCHANGED <<phase, registry, procVars, rchild, rnew, rattempts, rsaw, rresult, rcalls, sVars, eVars, pVars, stVars, dbVars>>

\* tokio::time::sleep(200 ms): the settle delay
R_Sleep(c) ==
    /\ rpc[c] = "sleep"
    /\ rpc' = [rpc EXCEPT ![c] = "spawn"]
    /\ UNCHANGED <<phase, registry, lock, procVars, rchild, rnew, rattempts, rsaw, rresult, rcalls, sVars, eVars, pVars, stVars, dbVars>>

\* sidecar("caw")? ... .spawn()? : an error returns at once, before any put
R_Spawn(c) ==
    /\ rpc[c] = "spawn"
    /\ \E o \in SpawnOutcomes :
        IF o = "ok"
        THEN /\ nspawned' = nspawned + 1
             /\ live' = live \cup {nspawned + 1}
             /\ rnew' = [rnew EXCEPT ![c] = nspawned + 1]
             /\ rpc' = [rpc EXCEPT ![c] = "lock2"]
             /\ UNCHANGED <<registry, rresult>>
        ELSE /\ rresult' = [rresult EXCEPT ![c] = o]
             /\ rpc' = [rpc EXCEPT ![c] = "done"]
             /\ registry' = SpawnFailureSlot(registry)
             /\ UNCHANGED <<nspawned, live, rnew>>
    /\ UNCHANGED <<phase, lock, kills, takes, rchild, rattempts, rsaw, rcalls, sVars, eVars, pVars, stVars, dbVars>>

\* state.0.lock() of the second block
R_Lock2(c) ==
    /\ rpc[c] = "lock2"
    /\ LockFree
    /\ lock' = c
    /\ rpc' = [rpc EXCEPT ![c] = "locked2"]
    /\ UNCHANGED <<phase, registry, procVars, rchild, rnew, rattempts, rsaw, rresult, rcalls, sVars, eVars, pVars, stVars, dbVars>>

\* *guard = Some(child): the slot is overwritten, whatever it held
R_Put(c) ==
    /\ rpc[c] = "locked2"
    /\ registry' = PutSlot(registry, rnew[c])
    /\ rpc' = [rpc EXCEPT ![c] = "unlock2"]
    /\ UNCHANGED <<phase, lock, procVars, rchild, rnew, rattempts, rsaw, rresult, rcalls, sVars, eVars, pVars, stVars, dbVars>>

R_Unlock2(c) ==
    /\ rpc[c] = "unlock2"
    /\ lock' = Release(c)
    /\ rpc' = [rpc EXCEPT ![c] = "client"]
    /\ UNCHANGED <<phase, registry, procVars, rchild, rnew, rattempts, rsaw, rresult, rcalls, sVars, eVars, pVars, stVars, dbVars>>

\* reqwest::Client::builder().timeout(2 s).build()? : a build error returns
R_Client(c) ==
    /\ rpc[c] = "client"
    /\ \E ok \in BOOLEAN :
        IF ok
        THEN /\ rpc' = [rpc EXCEPT ![c] = "poll"]
             /\ UNCHANGED rresult
        ELSE /\ rpc' = [rpc EXCEPT ![c] = "done"]
             /\ rresult' = [rresult EXCEPT ![c] = "client_error"]
    /\ UNCHANGED <<phase, registry, lock, procVars, rchild, rnew, rattempts, rsaw, rcalls, sVars, eVars, pVars, stVars, dbVars>>

\* one iteration of the poll loop: a probe, a return on success, otherwise
\* the 500 ms sleep; after the last iteration the timeout error is returned.
\* The loop counter goes away with the return.
R_Probe(c) ==
    /\ rpc[c] = "poll"
    /\ \E o \in ProbeOutcomes :
        LET n == rattempts[c] + 1 IN
        /\ rsaw' = [rsaw EXCEPT ![c] = (o = "success")]
        /\ IF ProbeReady(o)
           THEN /\ rpc' = [rpc EXCEPT ![c] = "done"]
                /\ rresult' = [rresult EXCEPT ![c] = "success"]
                /\ rattempts' = [rattempts EXCEPT ![c] = 0]
           ELSE IF RestartPollExhausted(n)
           THEN /\ rpc' = [rpc EXCEPT ![c] = "done"]
                /\ rresult' = [rresult EXCEPT ![c] = "timeout"]
                /\ rattempts' = [rattempts EXCEPT ![c] = 0]
           ELSE /\ rattempts' = [rattempts EXCEPT ![c] = n]
                /\ UNCHANGED <<rpc, rresult>>
    /\ UNCHANGED <<phase, registry, lock, procVars, rchild, rnew, rcalls, sVars, eVars, pVars, stVars, dbVars>>

\* ------------------------------------------------------------- stop_server

\* app.state::<SidecarState>() and state.0.lock(): the invocation starts and
\* blocks until the mutex is free; the guard lives until the function returns
S_Lock ==
    /\ phase = "running"
    /\ epc # "done"
    /\ spc \in {"idle", "done"}
    /\ scalls < MaxStopCalls
    /\ LockFree
    /\ lock' = StopThread
    /\ spc' = "locked"
    /\ scalls' = scalls + 1
    /\ sprev' = sresult
    /\ schild' = None
    /\ sresult' = "none"
    /\ UNCHANGED <<phase, registry, procVars, rVars, eVars, pVars, stVars, dbVars>>

\* guard.take()
S_Take ==
    /\ spc = "locked"
    /\ Take(registry)
    /\ schild' = registry
    /\ spc' = "taken"
    /\ UNCHANGED <<phase, lock, nspawned, live, kills, rVars, sresult, scalls, sprev, eVars, pVars, stVars, dbVars>>

\* child.kill().map_err(..)? : a kill error is returned to the caller;
\* otherwise, and when nothing was taken, Ok({success: true})
S_Kill ==
    /\ spc = "taken"
    /\ IF StopKills(schild)
       THEN \E o \in KillOutcomes :
               /\ Kill(schild, o)
               /\ sresult' = IF KillIsOk(o) THEN "ok" ELSE "kill_error"
       ELSE /\ sresult' = "ok"
            /\ UNCHANGED <<kills, live>>
    /\ spc' = "return"
    /\ UNCHANGED <<phase, registry, lock, nspawned, takes, rVars, schild, scalls, sprev, eVars, pVars, stVars, dbVars>>

\* the function returns and the guard is dropped
S_Return ==
    /\ spc = "return"
    /\ lock' = Release(StopThread)
    /\ spc' = "done"
    /\ UNCHANGED <<phase, registry, procVars, rVars, schild, sresult, scalls, sprev, eVars, pVars, stVars, dbVars>>

\* ------------------------------------------------------------- ExitRequested

\* RunEvent::ExitRequested: try_state is Some once setup has run; lock()
\* blocks the event loop until the mutex is free
E_Lock ==
    /\ phase = "running"
    /\ epc = "idle"
    /\ LockFree
    /\ lock' = ExitThread
    /\ epc' = "locked"
    /\ UNCHANGED <<phase, registry, procVars, rVars, sVars, echild, pVars, stVars, dbVars>>

\* guard.take()
E_Take ==
    /\ epc = "locked"
    /\ Take(registry)
    /\ echild' = registry
    /\ epc' = "taken"
    /\ UNCHANGED <<phase, lock, nspawned, live, kills, rVars, sVars, pVars, stVars, dbVars>>

\* let _ = child.kill(); the guard is dropped and the handler returns
E_Kill ==
    /\ epc = "taken"
    /\ IF echild # None
       THEN \E o \in KillOutcomes : Kill(echild, o)
       ELSE UNCHANGED <<kills, live>>
    /\ echild' = None
    /\ lock' = Release(ExitThread)
    /\ epc' = "done"
    /\ UNCHANGED <<phase, registry, nspawned, takes, rVars, sVars, pVars, stVars, dbVars>>

\* ------------------------------------------------------------- setup's poll

\* one iteration of the background task's loop. Client::new() sets no
\* timeout: a request that is never answered leaves the task pending.
P_Probe ==
    /\ ppc = "polling"
    /\ PollContinues(registry)
    /\ \E o \in ProbeOutcomes :
        LET n == pattempts + 1 IN
        /\ pattempts' = n
        /\ psaw' = (o = "success")
        /\ ppc' = IF o = "no_response" THEN "pending"
                  ELSE IF ProbeReady(o) THEN "ready"
                  ELSE IF StartPollExhausted(n) THEN "timeout"
                  ELSE "polling"
    /\ UNCHANGED <<phase, registry, lock, procVars, rVars, sVars, eVars, stVars, dbVars>>

\* ------------------------------------------------------------- server_status

\* `Ok(resp) if resp.status().is_success()` gives running: true, every other
\* result of the one request gives running: false
StatusRunning_AnyResponse(o) == o \in {"success", "bad_status"}
StatusRunning(o) == o = "success"

\* server_status: a client with a 2 s timeout is built (a build error is
\* returned as Err), one GET /health is sent, and its result is mapped to
\* {running: bool}. With the timeout an unanswered request is an Err result.
ServerStatus ==
    /\ phase = "running"
    /\ epc # "done"
    /\ stcalls < MaxStatusCalls
    /\ stcalls' = stcalls + 1
    /\ \E ok \in BOOLEAN :
        IF ok
        THEN \E o \in ProbeOutcomes :
                /\ stoutcome' = o
                /\ stresult' = IF StatusRunning(o) THEN "running" ELSE "not_running"
        ELSE /\ stoutcome' = "none"
             /\ stresult' = "client_error"
    /\ UNCHANGED <<phase, registry, lock, procVars, rVars, sVars, eVars, pVars, dbVars>>

\* ------------------------------------------------------------- resolve_db_path

\* strings are sequences of characters: a separator, a letter, a whitespace
Chars == {"/", "r", " "}

Strs == UNION {[1..n -> Chars] : n \in 0..MaxStrLen}

\* Output of `git rev-parse --show-toplevel`: Err (git cannot be run), a
\* non-zero exit status, or status.success()
GitStatuses == {"spawn_error", "failed", "success"}

IsSpace(ch) == ch = " "

RECURSIVE TrimStart(_)
TrimStart(str) ==
    IF str = <<>> \/ ~IsSpace(Head(str)) THEN str ELSE TrimStart(Tail(str))

RECURSIVE TrimEnd(_)
TrimEnd(str) ==
    IF str = <<>> \/ ~IsSpace(str[Len(str)]) THEN str
    ELSE TrimEnd(SubSeq(str, 1, Len(str) - 1))

\* String::from_utf8_lossy(&output.stdout).trim()
Trim_Keep(str) == str
Trim(str) == TrimEnd(TrimStart(str))

\* "/.caw/workflows.db", kept as one token
DbSuffix == <<"/.caw/workflows.db">>

\* "/tmp", kept as one token
TmpDir == <<"/tmp">>

\* std::env::var("HOME").unwrap_or_else(|_| "/tmp".to_string())
HomeOrDefault(h) == IF h = Unset THEN TmpDir ELSE h

\* resolve_db_path(): the trimmed git output when git succeeded and printed
\* something, else the home directory, each followed by /.caw/workflows.db
ResolveDbPath(status, out, h) ==
    LET repo_root == Trim(out) IN
    IF status = "success" /\ repo_root # <<>>
    THEN repo_root \o DbSuffix
    ELSE HomeOrDefault(h) \o DbSuffix

\* one call of resolve_db_path in the environment drawn by InitPath
ResolveDb ==
    /\ dbPath = Unresolved
    /\ dbPath' = ResolveDbPath(gitStatus, gitOut, home)
    /\ UNCHANGED <<phase, registry, lock, procVars, rVars, sVars, eVars, pVars, stVars, gitStatus, gitOut, home>>

\* every environment resolve_db_path can be called in, up to MaxStrLen
InitPath ==
    /\ InitCore
    /\ gitStatus \in GitStatuses
    /\ gitOut \in Strs
    /\ home \in Strs \cup {Unset}
    /\ dbPath = Unresolved

\* ------------------------------------------------------------- specifications

RestartNext == \E c \in RestartCallers :
    \/ R_Lock1(c) \/ R_Take(c) \/ R_Kill(c) \/ R_Unlock1(c) \/ R_Sleep(c)
    \/ R_Spawn(c) \/ R_Lock2(c) \/ R_Put(c) \/ R_Unlock2(c) \/ R_Client(c)
    \/ R_Probe(c)

StopNext == S_Lock \/ S_Take \/ S_Kill \/ S_Return

ExitNext == E_Lock \/ E_Take \/ E_Kill

\* the handlers that touch the Registry, run concurrently. The background
\* poll launched by setup reads and writes nothing but its own counter, so it
\* is stepped in SpecStart and not here.
Next == Setup \/ RestartNext \/ StopNext \/ ExitNext

Spec == Init /\ [][Next]_vars

\* setup, its background poll, and stop_server calls from the front end
NextStart == Setup \/ P_Probe \/ StopNext

SpecStart == Init /\ [][NextStart]_vars

\* one restart_server invocation, with stop_server calls and the exit handler
RestartOne == \E c \in {RestartOrder[1]} :
    \/ R_Lock1(c) \/ R_Take(c) \/ R_Kill(c) \/ R_Unlock1(c) \/ R_Sleep(c)
    \/ R_Spawn(c) \/ R_Lock2(c) \/ R_Put(c) \/ R_Unlock2(c) \/ R_Client(c)
    \/ R_Probe(c)

\* setup and its background poll while stop_server calls and one
\* restart_server invocation stop and replace the worker
NextPoll == Setup \/ P_Probe \/ StopNext \/ RestartOne

SpecPoll == Init /\ [][NextPoll]_vars

NextOne == Setup \/ RestartOne \/ StopNext \/ ExitNext

SpecOne == Init /\ [][NextOne]_vars

\* server_status calls from the front end while stop_server and the exit
\* handler run
NextStatus == Setup \/ ServerStatus \/ StopNext \/ ExitNext

SpecStatus == Init /\ [][NextStatus]_vars

\* resolve_db_path applied to every drawn environment
SpecPath == InitPath /\ [][ResolveDb]_vars

TypeOK ==
    /\ phase \in {"init", "running", "aborted"}
    /\ registry \in {None} \cup Workers
    /\ lock \in {"free", StopThread, ExitThread} \cup RestartCallers
    /\ nspawned \in 0..MaxW
    /\ live \subseteq 1..nspawned
    /\ rcalls \in 0..Len(RestartOrder)
    /\ scalls \in 0..MaxStopCalls
    /\ \A c \in RestartCallers : rattempts[c] \in 0..RestartAttempts
    /\ pattempts \in 0..StartAttempts

\* ------------------------------------------------------------- properties

\* a restart_server invocation between its take of the old handle and the
\* end of its put of the new one
InRestartWindow(c) == rpc[c] \in {"taken", "unlock1", "sleep", "spawn", "lock2", "locked2"}

\* start followed by stop_server calls only, the last of which has returned
OnlyStopsSoFar == rcalls = 0 /\ epc = "idle" /\ scalls >= 1 /\ spc = "done"

\* C1: once the ExitRequested handler has run, no worker spawned by the
\* supervisor is left running. Termination is best effort, so a worker whose
\* kill the OS refused is not held against the handler: the property asks
\* that every worker still alive after the handler has at least had kill
\* invoked on it. An exit between a restart's take and its put breaks it.
C1_NoOrphanAfterExit == epc = "done" => \A w \in live : kills[w] > 0

\* C2: under every interleaving of restart_server, stop_server and the exit
\* handler, take returns each worker handle at most once, and kill is invoked
\* at most once on any worker.
C2_TakenAndKilledAtMostOnce == \A w \in Workers : takes[w] <= 1 /\ kills[w] <= 1

\* C2 witness: stop_server took and killed the first worker, the first
\* restart registered its own worker and is polling, and the second restart
\* has just taken that worker from the Registry.
C2_Witness ==
    /\ schild = 1 /\ takes[1] = 1 /\ kills[1] = 1
    /\ rpc["r1"] = "poll"
    /\ rpc["r2"] = "taken" /\ rchild["r2"] # None /\ rchild["r2"] = rnew["r1"]

\* C3: no double-spawn - put never overwrites a Registry slot that holds a
\* handle on which kill has not been invoked.
C3_NoOverwriteOfLiveHandle ==
    [][\A c \in RestartCallers :
          (rpc[c] = "locked2" /\ rpc'[c] = "unlock2")
              => (registry = None \/ kills[registry] > 0)]_vars

\* C4: restart is atomic with respect to other restart/stop calls - while one
\* restart_server invocation is between its take and its put, no other
\* invocation is inside that span too and stop_server has not taken.
C4_RestartSerialized ==
    \A c \in RestartCallers :
        InRestartWindow(c) =>
            /\ \A d \in RestartCallers \ {c} : ~InRestartWindow(d)
            /\ spc \notin {"taken", "return"}

\* C5 as claimed: after start and n >= 1 stop_server calls and nothing else,
\* the Registry holds None and no worker is alive, whatever kill returned.
C5_StopsLeaveNothingAlive == OnlyStopsSoFar => registry = None /\ live = {}

\* C5 as amended: after start and n >= 1 stop_server calls and nothing else,
\* the Registry holds None, and no worker is alive except one on which kill
\* was invoked and refused by the OS.
C5_StopsLeaveOnlyRefused ==
    OnlyStopsSoFar => registry = None /\ \A w \in live : kills[w] > 0

\* C5 witness: two stop_server calls after start, the worker terminated.
C5_Witness ==
    OnlyStopsSoFar /\ scalls = 2 /\ registry = None /\ live = {} /\ kills[1] = 1

\* C6: stop_server returns Ok({success: true}) for every Registry content and
\* every outcome of the termination attempt.
C6_StopAlwaysSucceeds == spc = "done" => sresult = "ok"

\* C7: stop is idempotent - of two consecutive stop_server calls both
\* succeed, and the second finds the Registry empty, attempts no termination
\* and leaves the Registry empty.
C7_StopTwiceBothSucceed ==
    (rcalls = 0 /\ epc = "idle" /\ scalls >= 2 /\ spc = "done")
        => sprev = "ok" /\ sresult = "ok" /\ schild = None /\ registry = None

\* C8: whenever restart_server returns the readiness-timeout error, the
\* worker it spawned is the handle held in the Registry and has not been
\* terminated by the supervisor.
C8_TimeoutLeavesWorkerRegistered ==
    \A c \in RestartCallers :
        (rpc[c] = "done" /\ rresult[c] = "timeout")
            => registry = rnew[c] /\ kills[rnew[c]] = 0

\* C9, per step of invocation c: success is returned only by a probe that got
\* a success status, made while polling and among the first 30; a success
\* status ends the poll at once with success; the timeout error is returned
\* only by the 30th probe, when it too was not ready; a probe that is not
\* ready and not the 30th leaves the poll running; polling starts only after
\* the put.
C9_Step(c) ==
    /\ (rresult'[c] = "success" /\ rresult[c] # "success")
           => rpc[c] = "poll" /\ rattempts[c] < 30 /\ rsaw'[c]
    /\ (rresult'[c] = "timeout" /\ rresult[c] # "timeout")
           => rpc[c] = "poll" /\ rattempts[c] = 29 /\ ~rsaw'[c]
    /\ (rpc[c] = "poll" /\ rsaw'[c])
           => rpc'[c] = "done" /\ rresult'[c] = "success"
    /\ (rpc[c] = "poll" /\ rpc'[c] = "done" /\ ~rsaw'[c])
           => rresult'[c] = "timeout" /\ rattempts[c] = 29
    /\ (rpc[c] = "poll" /\ rpc'[c] = "poll" /\ rattempts'[c] # rattempts[c])
           => rattempts'[c] = rattempts[c] + 1
    /\ rpc'[c] = "poll" => rattempts'[c] < 30 /\ rnew'[c] # None
    /\ (rpc'[c] = "poll" /\ rpc[c] # "poll") => rpc[c] = "client"
    /\ rattempts'[c] # rattempts[c] => rpc[c] = "poll"

\* C9: restart_server's result is determined by its bounded readiness poll.
C9_ResultFollowsPoll == [][\A c \in RestartCallers : C9_Step(c)]_vars

\* C9 witness: one invocation returned the timeout error, the other success.
C9_Witness ==
    /\ rpc["r1"] = "done" /\ rresult["r1"] = "timeout" /\ ~rsaw["r1"]
    /\ rpc["r2"] = "done" /\ rresult["r2"] = "success" /\ rsaw["r2"]

\* the attempt count of setup's background poll in each of its positions
C10_State ==
    /\ ppc = "none" => pattempts = 0
    /\ ppc = "polling" => pattempts < 60 /\ ~psaw
    /\ ppc = "ready" => psaw /\ pattempts >= 1 /\ pattempts <= 60
    /\ ppc = "timeout" => ~psaw /\ pattempts = 60

\* C10: start's background poll makes exactly min(k, 60) probes, k the index
\* of the first Ready: probes are counted one at a time, none is made after a
\* Ready or after the 60th, ready is reported by the probe that got the first
\* success status, and the timeout after exactly 60 probes none of which did.
C10_StartPollBounded ==
    [][/\ C10_State'
       /\ pattempts' \in {pattempts, pattempts + 1}
       /\ ppc \in {"ready", "timeout"} => (ppc' = ppc /\ pattempts' = pattempts)
       /\ (ppc = "polling" /\ psaw') => ppc' = "ready"]_vars

\* C10 witness: the poll timed out after 60 probes.
C10_Witness == ppc = "timeout" /\ pattempts = 60 /\ ~psaw

\* ------------------------------------------------------------- C11

\* restart_server invocation c returns the timeout error in this step
ReturnsTimeout(c) == rresult[c] # "timeout" /\ rresult'[c] = "timeout"

\* C11 as stated: a restart_server call that found the Registry empty (the
\* stop_server call in flight or last finished had taken the worker) polls
\* with start's attempt bound: it gives up only after as many probes as
\* setup's background poll makes.
C11_RestartPollsAsStart ==
    [][\A c \in RestartCallers :
          (schild = 1 /\ ReturnsTimeout(c)) => rattempts[c] + 1 = StartAttempts]_vars

C11_Step(c) ==
    /\ (rpc[c] = "taken" /\ rchild[c] = None /\ rpc'[c] = "unlock1")
          => UNCHANGED <<kills, live, takes>>
    /\ (rpc[c] = "spawn" /\ rpc'[c] = "lock2")
          => /\ nspawned' = nspawned + 1
             /\ rnew'[c] = nspawned'
             /\ rnew'[c] \in live'
    /\ (rpc[c] # "spawn" /\ rpc'[c] # "idle") => rnew'[c] = rnew[c]
    /\ (rpc[c] = "locked2" /\ rpc'[c] = "unlock2") => registry' = rnew[c]
    /\ rattempts'[c] > rattempts[c] => rpc[c] = "poll"
    /\ ReturnsTimeout(c)
          => /\ rattempts[c] + 1 = RestartAttempts
             /\ rattempts[c] + 1 < StartAttempts
    /\ RestartPollDelayMs = StartPollDelayMs

\* C11 (amended): a restart_server call that takes nothing from the Registry
\* invokes no kill; a call whose spawn succeeds starts exactly one new worker
\* and puts that worker's handle into the Registry; it then polls with the
\* same inter-attempt delay as setup's poll but gives up after its own 30
\* probes, fewer than the 60 of setup's poll.
C11_RestartFromEmpty ==
    [][/\ \A c \in RestartCallers : C11_Step(c)
       /\ (phase = "running" /\ nspawned' # nspawned)
             => \E c \in RestartCallers : rpc[c] = "spawn" /\ rpc'[c] = "lock2"]_vars

\* stop_server took and killed setup's worker, the restart found the slot
\* empty, spawned worker 2, registered it and is about to make its last probe
C11_Witness ==
    /\ schild = 1 /\ spc = "done" /\ kills[1] = 1
    /\ rpc[RestartOrder[1]] = "poll"
    /\ rattempts[RestartOrder[1]] = RestartAttempts - 1
    /\ nspawned = 2
    /\ registry = 2 /\ rnew[RestartOrder[1]] = 2

\* ------------------------------------------------------------- C12

\* C12: a server_status call leaves the Registry slot, its mutex and every
\* worker process as they were (nothing is taken, put, spawned or killed);
\* it returns running = true exactly when its one probe got a success
\* status, and running = false, not an error, when the probe got another
\* status, a transport error or no answer within the timeout.
C12_StatusIsPureProbe ==
    [][stcalls' # stcalls
          => /\ UNCHANGED <<registry, lock, nspawned, live, kills, takes>>
             /\ stcalls' = stcalls + 1
             /\ (stresult' = "running") <=> (stoutcome' = "success")
             /\ stoutcome' \in {"bad_status", "transport_error", "no_response"}
                   => stresult' = "not_running"
             /\ stresult' = "client_error" => stoutcome' = "none"]_vars

\* the worker is registered and alive, the probe got no answer, and
\* server_status returned running = false
C12_Witness ==
    /\ stcalls > 0
    /\ stoutcome = "no_response"
    /\ stresult = "not_running"
    /\ registry = 1 /\ 1 \in live

\* ------------------------------------------------------------- C13

\* root is what is left of git's output out once the whitespace around it is
\* set aside
IsRootOf(root, out) ==
    \E i \in 1..(Len(out) + 1), j \in 0..Len(out) :
        /\ root = SubSeq(out, i, j)
        /\ \A k \in 1..Len(out) : (k < i \/ k > j) => IsSpace(out[k])
        /\ root # <<>> => ~IsSpace(root[1]) /\ ~IsSpace(root[Len(root)])

\* a version-control root is present: git succeeded and printed one
RootPresent ==
    /\ gitStatus = "success"
    /\ \E i \in 1..Len(gitOut) : ~IsSpace(gitOut[i])

\* with a root present the path is the root followed by /.caw/workflows.db
RootCase ==
    \E i \in 1..Len(gitOut), j \in 1..Len(gitOut) :
        /\ IsRootOf(SubSeq(gitOut, i, j), gitOut)
        /\ dbPath = SubSeq(gitOut, i, j) \o DbSuffix

RestartRuns(c) ==
    \/ R_Take(c) \/ R_Kill(c) \/ R_Unlock1(c) \/ R_Sleep(c) \/ R_Spawn(c)
    \/ R_Lock2(c) \/ R_Put(c) \/ R_Unlock2(c) \/ R_Client(c) \/ R_Probe(c)

StopRuns == S_Take \/ S_Kill \/ S_Return

ExitRuns == E_Take \/ E_Kill

FairOne ==
    /\ SpecOne
    /\ WF_vars(RestartRuns(RestartOrder[1]))
    /\ WF_vars(StopRuns)
    /\ WF_vars(ExitRuns)

\* the mutex is held by a restart_server invocation exactly inside its two
\* blocks, by stop_server from its lock() to its return and by the exit
\* handler from its lock() to its return
LockDiscipline ==
    /\ \A c \in RestartCallers :
          lock = c <=> rpc[c] \in {"locked1", "taken", "unlock1", "locked2", "unlock2"}
    /\ lock = StopThread <=> spc \in {"locked", "taken", "return"}
    /\ lock = ExitThread <=> epc \in {"locked", "taken"}

\* C14: no handler holds the Registry mutex while it sleeps, spawns or
\* probes: it is held only from a lock() to the end of the one take (and
\* kill) or the one put that follows. Hence every hold ends, and a
\* restart_server invocation waiting at its second lock() gets the mutex.
C14_LockHeldBriefly ==
    /\ []LockDiscipline
    /\ (lock # "free") ~> (lock = "free")
    /\ \A c \in RestartCallers : (rpc[c] = "lock2") ~> (rpc[c] = "locked2")

\* restart_server waits at its second lock() while stop_server holds the
\* mutex around its take
C14_Witness ==
    /\ rpc[RestartOrder[1]] = "lock2"
    /\ lock = StopThread
    /\ spc = "taken"

\* ------------------------------------------------------------- C15

\* the order of the steps of one restart_server call: lock, take, kill,
\* unlock, settle delay, spawn, lock, put, unlock, client, probes, return
RestartStepOrder ==
    {<<"idle", "locked1">>, <<"locked1", "taken">>, <<"taken", "unlock1">>,
     <<"unlock1", "sleep">>, <<"sleep", "spawn">>, <<"spawn", "lock2">>,
     <<"spawn", "done">>, <<"lock2", "locked2">>, <<"locked2", "unlock2">>,
     <<"unlock2", "client">>, <<"client", "poll">>, <<"client", "done">>,
     <<"poll", "done">>}

C15_Step(c) ==
    /\ rpc'[c] # rpc[c] => <<rpc[c], rpc'[c]>> \in RestartStepOrder
    /\ (rpc[c] = "locked1" /\ rpc'[c] = "taken")
          => rchild'[c] = registry /\ registry' = None
    /\ (rpc[c] = "taken" /\ rpc'[c] = "unlock1" /\ rchild[c] # None)
          => kills'[rchild[c]] = kills[rchild[c]] + 1
    /\ rpc'[c] \notin {"locked1", "taken"} => rchild'[c] = None
    /\ (rpc[c] = "spawn" /\ rpc'[c] = "lock2")
          => nspawned' = nspawned + 1 /\ rnew'[c] = nspawned'
    /\ (rpc[c] = "locked2" /\ rpc'[c] = "unlock2")
          => rnew[c] # None /\ registry' = rnew[c]
    /\ (rattempts'[c] # rattempts[c] \/ rsaw'[c] # rsaw[c]) => rpc[c] = "poll"
    /\ rpc'[c] \in {"lock2", "locked2", "unlock2", "client", "poll"}
          => rnew'[c] # None

\* C15: the steps of one restart_server call come in the order take, kill of
\* the taken handle if there is one, settle delay, spawn, put, poll. The
\* spawn step is reached only after the kill step has been passed with the
\* taken handle consumed, and a probe is made only after the put.
C15_RestartOrder ==
    [][\A c \in RestartCallers : C15_Step(c)]_vars

\* the restart took and killed setup's worker, put worker 2 and has made its
\* first probe
C15_Witness ==
    /\ scalls = 0 /\ epc = "idle"
    /\ takes[1] = 1 /\ kills[1] = 1
    /\ registry = 2 /\ rnew[RestartOrder[1]] = 2
    /\ rpc[RestartOrder[1]] = "poll"
    /\ rattempts[RestartOrder[1]] = 1

\* ------------------------------------------------------------- C16

\* the background poll makes a probe, gets a success status and reports ready
PollReportsReady == P_Probe /\ ppc' = "ready"

\* C16: while the background poll has neither reported nor hung, its next
\* probe can be made, and can report ready, whatever stop_server and
\* restart_server have done to the Registry and to the worker; no step of
\* those handlers ends or resets the poll, each probe leaves the Registry
\* alone, and what the poll reports follows from the probe result and the
\* attempt counter alone.
C16_PollNotCancelled ==
    [][/\ ppc = "polling" => ENABLED P_Probe /\ ENABLED PollReportsReady
       /\ pattempts' = pattempts => (ppc' = ppc \/ phase = "init")
       /\ pattempts' # pattempts
             => /\ UNCHANGED <<registry, lock, procVars>>
                /\ ppc = "polling"
                /\ pattempts' = pattempts + 1
                /\ ppc' = "ready" <=> psaw'
                /\ ppc' = "timeout" => pattempts' = StartAttempts
                /\ ppc' = "polling" => pattempts' < StartAttempts]_vars

\* setup's worker has been killed and replaced by restart_server's worker,
\* and the poll that setup launched is still probing
C16_Witness ==
    /\ ppc = "polling"
    /\ pattempts = 3
    /\ kills[1] = 1 /\ 1 \notin live
    /\ registry = 2

\* ------------------------------------------------------------- C17

\* C17: every probe attempt is cut off by a per-attempt timeout, so no probe
\* of a readiness poll is left without an outcome: the background poll is
\* never stuck in a request that will not return.
C17_EveryProbeYieldsOutcome == ppc # "pending"

\* ------------------------------------------------------------- C18

\* restart_server invocation c returns the error of its spawn step in this step
ReturnsSpawnError(c) == rpc[c] = "spawn" /\ rpc'[c] = "done"

\* C18: when restart_server returns the error of its spawn step it has put
\* nothing and made no probe, the handle it took has been consumed by the
\* kill, and the Registry is empty at that return.
C18_SpawnFailureLeavesEmpty ==
    [][\A c \in RestartCallers :
          ReturnsSpawnError(c)
             => /\ rresult'[c] \in {"no_sidecar", "spawn_failed"}
                /\ rnew'[c] = None /\ rchild'[c] = None
                /\ rattempts'[c] = 0 /\ ~rsaw'[c]
                /\ registry' = None]_vars

\* ------------------------------------------------------------- C19

\* C19: the handle held in the Registry has never been taken and never had
\* kill invoked on it; kill has been invoked only on handles that were taken
\* before, and a handle that was taken is not in the Registry again.
C19_RegisteredHandleUntouched ==
    /\ registry # None => kills[registry] = 0 /\ takes[registry] = 0
    /\ \A w \in Workers : kills[w] <= takes[w]
    /\ \A w \in Workers : takes[w] > 0 => registry # w

\* setup's worker was taken and killed, and the worker restart_server put in
\* its place is registered with no kill invoked on it
C19_Witness ==
    /\ takes[1] = 1 /\ kills[1] = 1
    /\ registry = 2
    /\ kills[2] = 0 /\ takes[2] = 0

\* ------------------------------------------------------------- C20

\* C20: whenever the Registry mutex is free, kill has been invoked on every
\* handle that was taken from the Registry: a handle taken and not yet
\* killed exists only while its taker still holds the mutex.
C20_TakeAndKillUnderLock ==
    /\ \A w \in Workers : takes[w] > kills[w] => lock # "free"
    /\ lock = "free"
          => /\ \A c \in RestartCallers : rchild[c] = None
             /\ spc # "taken"
             /\ echild = None

\* restart_server has taken and killed setup's worker, released the mutex
\* and is in its settle delay
C20_Witness ==
    /\ lock = "free"
    /\ takes[1] = 1 /\ kills[1] = 1
    /\ rpc[RestartOrder[1]] = "sleep"
    /\ scalls = 0 /\ epc = "idle"

====
